---- MODULE Spec2Model ----
(***************************************************************************)
(* Model of the scheduling and single-flight execution engine of           *)
(* schedule-db-query: SnapshotScheduler (src/src/scheduler.py) driving the *)
(* process-wide job registry of the `schedule` package.                    *)
(*                                                                         *)
(* Time is an integer number of clock ticks since a Monday 00:00.  A       *)
(* minute has TicksPerMinute ticks, so that truncating an instant to its   *)
(* minute (strftime('%Y-%m-%d %H:%M')) loses information; a day has        *)
(* MinutesPerDay minutes and a week DaysPerWeek days.  A time of day       *)
(* ("HH:MM") is a minute of the day, BadTime is a malformed string.        *)
(***************************************************************************)
EXTENDS Integers, Sequences, FiniteSets

(* ------------------------------ bounds -------------------------------- *)
TicksPerMinute == 2
MinutesPerDay == 2
MaxTimes == 2
MaxTaskTicks == 2
MaxJitter == 1
MaxRunOnce == 1
MaxSetups == 2

(* ------------------------- program constants -------------------------- *)
DaysPerWeek == 7
BadTime == -1
None == -1

TicksPerDay == MinutesPerDay * TicksPerMinute
TicksPerWeek == DaysPerWeek * TicksPerDay
Horizon == TicksPerWeek + 2 * TicksPerDay

VARIABLES
    now,                    \* the wall clock, in ticks
    schedule_times,         \* self.schedule_times
    schedule_days,          \* self.schedule_days (stripped, upper-cased)
    is_running,             \* self.is_running
    task_executing,         \* self.task_executing
    last_execution_minute,  \* self.last_execution_minute (None when unset)
    jobs,                   \* schedule.jobs: a list of references to Job objects
    job,                    \* the Job objects, by identity
    pc,                     \* where run() is
    run_list,               \* the due jobs run_pending collected for this pass
    run_idx,                \* how many of them have been run
    log,                    \* the decision the wrapper logged last
    outcome,                \* how the last Task Body invocation ended
    setup_at,               \* the clock read by setup_schedule
    active,                 \* Task Body invocations started by the wrapper and not ended
    task_ticks,             \* how long the running Task Body has run
    ro_pc,                  \* where a concurrent run_once() call is
    ro_count,               \* run_once() calls made so far
    setups,                 \* setup_schedule() calls made so far
    stopped_by,             \* who called stop() last, "none" since the last setup
    late,                   \* jobs that became due while a Task Body ran for another job
    snap,                   \* an execute_snapshot() invocation: its inputs, position and steps
    mail,                   \* a send_email() call: its retry_count, position and attempts
    app,                    \* a main() run: its flags and settings, position and calls
    exporter                \* a cleanup_old_files() call: the output directory and the sweep

vars == <<now, schedule_times, schedule_days, is_running, task_executing,
          last_execution_minute, jobs, job, pc, run_list, run_idx, log,
          outcome, setup_at, active, task_ticks, ro_pc, ro_count, setups, stopped_by, late, snap, mail, app, exporter>>

\* the scheduler's part of the state
sched_vars == <<now, schedule_times, schedule_days, is_running, task_executing,
                last_execution_minute, jobs, job, pc, run_list, run_idx, log,
                outcome, setup_at, active, task_ticks, ro_pc, ro_count, setups,
                stopped_by, late>>

(* ------------------------------ the clock ----------------------------- *)
\* datetime.strftime('%Y-%m-%d %H:%M'): the instant truncated to its minute.
MinuteOf(t) == t \div TicksPerMinute

\* datetime.weekday(): 0 is Monday.
Weekday(t) == (t \div TicksPerDay) % DaysPerWeek

\* the instant's time of day, in ticks since midnight.
TickOfDay(t) == t % TicksPerDay

Range(s) == {s[i] : i \in DOMAIN s}

(* --------------------- the schedule package's Job --------------------- *)
\* A Job object.  unit is "weeks" for schedule.every().monday etc. and
\* "days" for schedule.every().day; start_day is the weekday index of a
\* weekly job; at_time and next_run are None until .at() and .do().
NoJob == [unit |-> "none", start_day |-> None, at_time |-> None, next_run |-> None]

JobIds == 0 .. (DaysPerWeek + MaxTimes - 1)

NoJobs == [id \in JobIds |-> NoJob]

\* the recurrence interval of a job: datetime.timedelta(**{unit: 1}).
Period(j) == IF j.unit = "weeks" THEN TicksPerWeek ELSE TicksPerDay

\* schedule._move_to_next_weekday: today when today is that weekday.
MoveToNextWeekday(moment, weekday) ==
    LET days_ahead == weekday - Weekday(moment)
    IN  moment + (IF days_ahead < 0 THEN days_ahead + DaysPerWeek ELSE days_ahead) * TicksPerDay

\* Job._move_to_at_time: moment.replace(hour, minute, second=0, microsecond=0).
MoveToAtTime(moment, at_time) == (moment - TickOfDay(moment)) + at_time * TicksPerMinute

\* while next_run <= now: next_run += period
RECURSIVE AdvancePast(_, _, _)
AdvancePast(next_run, t, period) ==
    IF next_run <= t THEN AdvancePast(next_run + period, t, period) ELSE next_run

\* variant: an instant equal to now is taken as still to come
NextRunLate(j, t) ==
    LET onDay == IF j.start_day # None THEN MoveToNextWeekday(t, j.start_day) ELSE t
    IN  AdvancePast(MoveToAtTime(onDay, j.at_time), t - 1, Period(j))

\* Job._schedule_next_run, for a job of interval 1 with an at_time, at clock t.
NextRun(j, t) ==
    LET onDay == IF j.start_day # None THEN MoveToNextWeekday(t, j.start_day) ELSE t
    IN  AdvancePast(MoveToAtTime(onDay, j.at_time), t, Period(j))

(* --------------------------- setup_schedule --------------------------- *)
valid_days == {"MON", "TUE", "WED", "THU", "FRI", "SAT", "SUN"}

\* day_map: the day symbol's Job object, named by its weekday index.
day_map(d) ==
    CASE d = "MON" -> 0 [] d = "TUE" -> 1 [] d = "WED" -> 2 [] d = "THU" -> 3
      [] d = "FRI" -> 4 [] d = "SAT" -> 5 [] d = "SUN" -> 6

\* the seven Job objects day_map creates: schedule.every().monday, ...
DayMapJobs ==
    [id \in JobIds |->
        IF id < DaysPerWeek
        THEN [unit |-> "weeks", start_day |-> id, at_time |-> None, next_run |-> None]
        ELSE NoJob]

\* the Job object schedule.every().day creates for the i-th configured time.
DailyId(i) == DaysPerWeek + i - 1

\* str.strip().upper() of a configured day symbol.
StripUpper(d) ==
    CASE d = "mon" -> "MON" [] d = " tue" -> "TUE" [] d = "everyday" -> "EVERYDAY"
      [] OTHER -> d

\* variant: one unknown symbol voids the whole list of days
schedule_days_setStrict(days) ==
    IF \A d \in Range(days) : d \in valid_days \cup {"EVERYDAY"}
    THEN {d \in Range(days) : d \in valid_days}
    ELSE {}

\* set(schedule_days).intersection(valid_days)
schedule_days_set(days) == {d \in Range(days) : d \in valid_days}

\* variant: the EVERYDAY sentinel is not looked at
IsDailyNoSentinel(days) == Cardinality(schedule_days_set(days)) = DaysPerWeek

\* len(schedule_days_set) == 7 or 'EVERYDAY' in self.schedule_days
IsDaily(days) ==
    Cardinality(schedule_days_set(days)) = DaysPerWeek \/ "EVERYDAY" \in Range(days)

\* the orders in which a Python set may be iterated
Orders(S) ==
    {o \in [1 .. Cardinality(S) -> S] : \A a, b \in DOMAIN o : a # b => o[a] # o[b]}

\* the orders `for day in schedule_days_set` may take; the loop is not
\* entered for a daily schedule.
DayOrders(days) == IF IsDaily(days) THEN {<<>>} ELSE Orders(schedule_days_set(days))

\* variant: .do() before .at(), so the next run is one day from now
RegisterDailyDoBeforeAt(st, i, t, clock) ==
    IF t = BadTime
    THEN [st EXCEPT !.err = TRUE]
    ELSE LET id == DailyId(i)
             made == [unit |-> "days", start_day |-> None, at_time |-> t, next_run |-> None]
         IN  [st EXCEPT !.job[id] = [made EXCEPT !.next_run = clock + Period(made)],
                        !.jobs = Append(st.jobs, id),
                        !.keys = st.keys \cup {<<"", t>>}]

\* schedule.every().day.at(t).do(wrapper), then scheduled_times.add(t)
RegisterDaily(st, i, t, clock) ==
    IF t = BadTime
    THEN [st EXCEPT !.err = TRUE]
    ELSE LET id == DailyId(i)
             made == [unit |-> "days", start_day |-> None, at_time |-> t, next_run |-> None]
         IN  [st EXCEPT !.job[id] = [made EXCEPT !.next_run = NextRun(made, clock)],
                        !.jobs = Append(st.jobs, id),
                        !.keys = st.keys \cup {<<"", t>>}]

\* the body of `for day in schedule_days_set`: day_map[day].at(t).do(wrapper)
\* unless f"{day}_{t}" is in scheduled_times.
RegisterDay(st, d, t, clock) ==
    IF <<d, t>> \in st.keys
    THEN st
    ELSE IF t = BadTime
    THEN [st EXCEPT !.err = TRUE]
    ELSE LET id == day_map(d)
             at == [st.job[id] EXCEPT !.at_time = t]
         IN  [st EXCEPT !.job[id] = [at EXCEPT !.next_run = NextRun(at, clock)],
                        !.jobs = Append(st.jobs, id),
                        !.keys = st.keys \cup {<<d, t>>}]

RECURSIVE ForDays(_, _, _, _, _)
ForDays(st, order, k, t, clock) ==
    IF k > Len(order) \/ st.err
    THEN st
    ELSE ForDays(RegisterDay(st, order[k], t, clock), order, k + 1, t, clock)

\* `for schedule_time in self.schedule_times`, which an exception of .at() leaves.
RECURSIVE ForTimes(_, _, _, _, _, _)
ForTimes(st, times, days, order, i, clock) ==
    IF i > Len(times) \/ st.err
    THEN st
    ELSE ForTimes(IF IsDaily(days)
                  THEN RegisterDaily(st, i, times[i], clock)
                  ELSE ForDays(st, order, 1, times[i], clock),
                  times, days, order, i + 1, clock)

\* schedule.clear(): the registry's job list, whatever it held, is emptied.
clear(registry) == <<>>

\* variant: setup_schedule without its schedule.clear()
SetupResultNoClear(registry, times, days, order, clock) ==
    ForTimes([jobs |-> registry, job |-> DayMapJobs, keys |-> {}, err |-> FALSE],
             times, days, order, 1, clock)

\* setup_schedule at clock reading `clock`, iterating the day set in `order`,
\* with the job list `registry` in the schedule package: schedule.clear(),
\* day_map, then the registrations.
SetupResult(registry, times, days, order, clock) ==
    ForTimes([jobs |-> clear(registry), job |-> DayMapJobs, keys |-> {}, err |-> FALSE],
             times, days, order, 1, clock)

(* ------------------------- _cleanup_past_jobs ------------------------- *)
\* list.remove(x): the first occurrence goes; cancel_job swallows ValueError.
RECURSIVE RemoveFirst(_, _)
RemoveFirst(s, x) ==
    IF s = <<>> THEN <<>>
    ELSE IF Head(s) = x THEN Tail(s)
    ELSE <<Head(s)>> \o RemoveFirst(Tail(s), x)

\* variant: a job due exactly now is kept
IsPastStrict(j, t) == j.next_run # None /\ j.next_run < t

\* job.next_run and job.next_run <= now
IsPast(j, t) == j.next_run # None /\ j.next_run <= t

\* for job in jobs[:]: if past: schedule.cancel_job(job)
RECURSIVE SweepLoop(_, _, _, _, _)
SweepLoop(copy, i, cur, heap, t) ==
    IF i > Len(copy) THEN cur
    ELSE SweepLoop(copy, i + 1,
                   IF IsPast(heap[copy[i]], t) THEN RemoveFirst(cur, copy[i]) ELSE cur,
                   heap, t)

(* ------------------------------ the guard ----------------------------- *)
\* variant: the overlap check before the duplicate check
GuardDecisionOverlapFirst(in_flight, last_minute, current_minute) ==
    IF in_flight THEN "SKIP_OVERLAP"
    ELSE IF last_minute = current_minute THEN "SKIP_DUPLICATE"
    ELSE "PROCEED"

\* variant: the wrapper without its duplicate check
GuardDecisionNoDuplicate(in_flight, last_minute, current_minute) ==
    IF in_flight THEN "SKIP_OVERLAP" ELSE "PROCEED"

\* the wrapper's two checks, in the order it makes them, and the reason it logs.
GuardDecision(in_flight, last_minute, current_minute) ==
    IF last_minute = current_minute THEN "SKIP_DUPLICATE"
    ELSE IF in_flight THEN "SKIP_OVERLAP"
    ELSE "PROCEED"

(* ----------------------------- run_pending ---------------------------- *)
\* sorted(): a stable insertion of job x by next_run (Job.__lt__).
RECURSIVE InsertByNextRun(_, _, _)
InsertByNextRun(s, x, heap) ==
    IF s = <<>> THEN <<x>>
    ELSE IF heap[x].next_run < heap[Head(s)].next_run THEN <<x>> \o s
    ELSE <<Head(s)>> \o InsertByNextRun(Tail(s), x, heap)

RECURSIVE SortByNextRun(_, _)
SortByNextRun(s, heap) ==
    IF s = <<>> THEN <<>>
    ELSE InsertByNextRun(SortByNextRun(SubSeq(s, 1, Len(s) - 1), heap), s[Len(s)], heap)

\* Job.should_run: datetime.now() >= self.next_run
should_run(j, t) == t >= j.next_run

\* sorted(job for job in self.jobs if job.should_run)
Runnable(js, heap, t) ==
    SortByNextRun(SelectSeq(js, LAMBDA id : should_run(heap[id], t)), heap)

\* the pass's entries: the job, the minute its trigger truncates to, and what
\* its wrapper decided ("due" until it has been called).
PassOf(runnable, heap) ==
    [k \in DOMAIN runnable |->
        [id |-> runnable[k], trig |-> MinuteOf(heap[runnable[k]].next_run), res |-> "due"]]

(* ------------------------------ the state ----------------------------- *)
TimesOfDay == 0 .. (MinutesPerDay - 1)

SeqsUpTo(S, n) == UNION {[1 .. k -> S] : k \in 1 .. n}

\* SCHEDULE_DAYS values as configured, before strip().upper()
RawDayConfigs ==
    { <<"MON">>, <<"mon", " tue">>, <<"TUE", "MON", "MON">>, <<"SUN">>,
      <<"EVERYDAY">>, <<"MON", "everyday">>, <<"FUNDAY">>, <<"MON", "FUNDAY">>,
      <<"MON", "TUE", "WED", "THU", "FRI", "SAT", "SUN">>,
      <<"MON", "WED", "FRI">> }

RawDayConfigsLoop ==
    { <<"MON">>, <<"mon", " tue">>, <<"EVERYDAY">> }

\* no job has become due during a Task Body
NoneLate == [waiting |-> {}, polled |-> {}]

\* execute_snapshot(), send_email() and main() are not being run
SnapIdle == [pc |-> "idle"]
MailIdle == [pc |-> "idle"]
AppIdle == [pc |-> "idle"]
ExporterIdle == [pc |-> "idle"]

NothingElse == snap = SnapIdle /\ mail = MailIdle /\ app = AppIdle /\ exporter = ExporterIdle

\* SnapshotScheduler.__init__ with the settings' times and days
Constructed(times, rawdays) ==
    /\ schedule_times = times
    /\ schedule_days = [k \in DOMAIN rawdays |-> StripUpper(rawdays[k])]
    /\ is_running = FALSE
    /\ task_executing = FALSE
    /\ last_execution_minute = None
    /\ jobs = <<>>
    /\ job = NoJobs
    /\ pc = "stopped"
    /\ run_list = <<>>
    /\ run_idx = 0
    /\ log = "none"
    /\ outcome = "none"
    /\ setup_at = None
    /\ active = 0
    /\ task_ticks = 0
    /\ ro_pc = "idle"
    /\ ro_count = 0
    /\ setups = 0
    /\ stopped_by = "none"
    /\ late = NoneLate

\* the scheduler as constructed, on the last day of a week
Init ==
    /\ now \in (TicksPerWeek - TicksPerDay) .. (TicksPerWeek - 1)
    /\ \E times \in SeqsUpTo(TimesOfDay, MaxTimes), rawdays \in RawDayConfigsLoop :
           Constructed(times, rawdays)
    /\ NothingElse

(* -------------------------------- run() ------------------------------- *)
\* stop(): is_running = False; schedule.clear()
Stopped ==
    /\ is_running' = FALSE
    /\ jobs' = <<>>
    /\ job' = NoJobs

\* setup_schedule() called on the scheduler while run() is not running: an
\* exception of .at() is logged and re-raised to the caller, and the jobs
\* registered before it stay in the registry.
SetupSchedule ==
    /\ pc = "stopped"
    /\ setups < MaxSetups
    /\ \E order \in DayOrders(schedule_days) :
         LET st == SetupResult(jobs, schedule_times, schedule_days, order, now)
         IN  /\ jobs' = st.jobs
             /\ job' = st.job
    /\ setup_at' = now
    /\ setups' = setups + 1
    /\ stopped_by' = "none"
    /\ UNCHANGED <<now, schedule_times, schedule_days, is_running, task_executing,
                   last_execution_minute, pc, run_list, run_idx, log, outcome,
                   active, task_ticks, ro_pc, ro_count, late,
                   snap, mail, app, exporter>>

\* run(), called when run() is at `at`, up to and including
\* self.is_running = True; an exception of setup_schedule is logged, stop()
\* is called and the exception is re-raised.
Run(at) ==
    /\ pc \in at
    /\ setups < MaxSetups
    /\ \E order \in DayOrders(schedule_days) :
         LET st == SetupResult(jobs, schedule_times, schedule_days, order, now)
         IN  IF st.err
             THEN Stopped /\ stopped_by' = "setup_error" /\ pc' = "raised"
             ELSE /\ jobs' = st.jobs
                  /\ job' = st.job
                  /\ is_running' = TRUE
                  /\ stopped_by' = "none"
                  /\ pc' = "sweep"
    /\ setup_at' = now
    /\ setups' = setups + 1
    /\ late' = NoneLate
    /\ UNCHANGED <<now, schedule_times, schedule_days, task_executing,
                   last_execution_minute, run_list, run_idx, log, outcome,
                   active, task_ticks, ro_pc, ro_count,
                   snap, mail, app, exporter>>

\* run() called on the scheduler as constructed (or set up by its caller)
RunStart == Run({"stopped"})

\* run() called again after it returned or raised
RunAgain == Run({"returned", "raised"})

\* _cleanup_past_jobs, reading the clock d ticks after setup_schedule did,
\* and _display_next_runs, which logs a warning when no job is registered.
CleanupPastJobs(d) ==
    /\ pc = "sweep"
    /\ now + d <= Horizon
    /\ now' = now + d
    /\ jobs' = SweepLoop(jobs, 1, jobs, job, now')
    /\ log' = IF jobs' = <<>> THEN "NO_JOBS" ELSE log
    /\ pc' = "poll"
    /\ UNCHANGED <<schedule_times, schedule_days, is_running, task_executing,
                   last_execution_minute, job, run_list, run_idx, outcome,
                   setup_at, active, task_ticks, ro_pc, ro_count, setups, stopped_by, late,
                   snap, mail, app, exporter>>

\* variant: `while True:`
PollAlways ==
    /\ pc = "poll"
    /\ run_list' = PassOf(Runnable(jobs, job, now), job)
    /\ run_idx' = 0
    /\ late' = [waiting |-> {}, polled |-> late.waiting]
    /\ pc' = "pending"
    /\ UNCHANGED <<now, schedule_times, schedule_days, is_running, task_executing,
                   last_execution_minute, jobs, job, log, outcome, setup_at,
                   active, task_ticks, ro_pc, ro_count, setups, stopped_by,
                   snap, mail, app, exporter>>

\* `while self.is_running:` and the start of schedule.run_pending(): the due
\* jobs are collected and sorted before any of them is run.
Poll ==
    /\ pc = "poll"
    /\ IF is_running
       THEN /\ run_list' = PassOf(Runnable(jobs, job, now), job)
            /\ run_idx' = 0
            /\ late' = [waiting |-> {}, polled |-> late.waiting]
            /\ pc' = "pending"
       ELSE /\ pc' = "returned"
            /\ UNCHANGED <<run_list, run_idx, late>>
    /\ UNCHANGED <<now, schedule_times, schedule_days, is_running, task_executing,
                   last_execution_minute, jobs, job, log, outcome, setup_at,
                   active, task_ticks, ro_pc, ro_count, setups, stopped_by,
                   snap, mail, app, exporter>>

\* the entry of the pass whose job is being run
Current == run_list[run_idx]

\* Job.run() after job_func returned: last_run = now; _schedule_next_run()
Rescheduled(heap, id, t) == [heap EXCEPT ![id].next_run = NextRun(heap[id], t)]

\* variant: the Task Body is started without waiting for it
FireAsync ==
    /\ pc = "pending"
    /\ run_idx < Len(run_list)
    /\ LET id == run_list[run_idx + 1].id
           dec == GuardDecision(task_executing, last_execution_minute, MinuteOf(now))
       IN  /\ log' = dec
           /\ run_list' = [run_list EXCEPT ![run_idx + 1].res = dec]
           /\ run_idx' = run_idx + 1
           /\ job' = Rescheduled(job, id, now)
           /\ IF dec = "PROCEED"
              THEN /\ last_execution_minute' = MinuteOf(now)
                   /\ active' = active + 1
              ELSE UNCHANGED <<last_execution_minute, active>>
    /\ UNCHANGED <<now, schedule_times, schedule_days, is_running, jobs, outcome,
                   setup_at, task_ticks, ro_pc, ro_count, setups, stopped_by, pc, task_executing, late,
                   snap, mail, app, exporter>>

\* variant: a job whose firing was skipped stays due
FireNoAdvance ==
    /\ pc = "pending"
    /\ run_idx < Len(run_list)
    /\ LET id == run_list[run_idx + 1].id
           dec == GuardDecision(task_executing, last_execution_minute, MinuteOf(now))
       IN  /\ log' = dec
           /\ run_list' = [run_list EXCEPT ![run_idx + 1].res = dec]
           /\ run_idx' = run_idx + 1
           /\ IF dec = "PROCEED"
              THEN /\ task_executing' = TRUE
                   /\ last_execution_minute' = MinuteOf(now)
                   /\ active' = active + 1
                   /\ pc' = "task"
                   /\ UNCHANGED job
              ELSE UNCHANGED <<job, task_executing, last_execution_minute, active, pc>>
    /\ UNCHANGED <<now, schedule_times, schedule_days, is_running, jobs, outcome,
                   setup_at, task_ticks, ro_pc, ro_count, setups, stopped_by, late,
                   snap, mail, app, exporter>>

\* variant: the wrapper does not record the minute before calling the Task Body
FireMinuteUnmarked ==
    /\ pc = "pending"
    /\ run_idx < Len(run_list)
    /\ LET id == run_list[run_idx + 1].id
           dec == GuardDecision(task_executing, last_execution_minute, MinuteOf(now))
       IN  /\ log' = dec
           /\ run_list' = [run_list EXCEPT ![run_idx + 1].res = dec]
           /\ run_idx' = run_idx + 1
           /\ IF dec = "PROCEED"
              THEN /\ task_executing' = TRUE
                   /\ active' = active + 1
                   /\ pc' = "task"
                   /\ UNCHANGED <<job, last_execution_minute>>
              ELSE /\ job' = Rescheduled(job, id, now)
                   /\ UNCHANGED <<task_executing, last_execution_minute, active, pc>>
    /\ UNCHANGED <<now, schedule_times, schedule_days, is_running, jobs, outcome,
                   setup_at, task_ticks, ro_pc, ro_count, setups, stopped_by, late,
                   snap, mail, app, exporter>>

\* run_pending runs the next collected job: Job.run() calls the wrapper, which
\* reads the clock, skips (and the job is rescheduled) or marks the guard
\* and calls the Task Body, for whose return the loop waits.
Fire ==
    /\ pc = "pending"
    /\ run_idx < Len(run_list)
    /\ LET id == run_list[run_idx + 1].id
           dec == GuardDecision(task_executing, last_execution_minute, MinuteOf(now))
       IN  /\ log' = dec
           /\ run_list' = [run_list EXCEPT ![run_idx + 1].res = dec]
           /\ run_idx' = run_idx + 1
           /\ IF dec = "PROCEED"
              THEN /\ task_executing' = TRUE
                   /\ last_execution_minute' = MinuteOf(now)
                   /\ active' = active + 1
                   /\ pc' = "task"
                   /\ UNCHANGED job
              ELSE /\ job' = Rescheduled(job, id, now)
                   /\ UNCHANGED <<task_executing, last_execution_minute, active, pc>>
    /\ UNCHANGED <<now, schedule_times, schedule_days, is_running, jobs, outcome,
                   setup_at, task_ticks, ro_pc, ro_count, setups, stopped_by, late,
                   snap, mail, app, exporter>>

\* the clock moves on while the Task Body runs.
TaskTick ==
    /\ pc = "task"
    /\ task_ticks < MaxTaskTicks
    /\ now < Horizon
    /\ now' = now + 1
    /\ task_ticks' = task_ticks + 1
    /\ UNCHANGED <<schedule_times, schedule_days, is_running, task_executing,
                   last_execution_minute, jobs, job, pc, run_list, run_idx, log,
                   outcome, setup_at, active, ro_pc, ro_count, setups, stopped_by, late,
                   snap, mail, app, exporter>>

\* the registered jobs, other than the one being run, that were not due when
\* the running Task Body was called and are due now.
BecameDue ==
    {id \in Range(jobs) : /\ id # Current.id
                          /\ should_run(job[id], now)
                          /\ ~should_run(job[id], now - task_ticks)}

\* the Task Body returns: the wrapper's finally clause, then Job.run()
\* reschedules the job from the clock as it is now.
TaskReturn ==
    /\ pc = "task"
    /\ late' = [late EXCEPT !.waiting = @ \cup BecameDue]
    /\ task_executing' = FALSE
    /\ active' = active - 1
    /\ task_ticks' = 0
    /\ outcome' = "returned"
    /\ job' = Rescheduled(job, Current.id, now)
    /\ pc' = "pending"
    /\ UNCHANGED <<now, schedule_times, schedule_days, is_running,
                   last_execution_minute, jobs, run_list, run_idx, log, setup_at,
                   ro_pc, ro_count, setups, stopped_by,
                   snap, mail, app, exporter>>

\* variant: the wrapper without its finally clause
TaskRaiseNoFinally ==
    /\ pc = "task"
    /\ active' = active - 1
    /\ task_ticks' = 0
    /\ outcome' = "raised"
    /\ Stopped
    /\ stopped_by' = "task_error"
    /\ run_list' = <<>>
    /\ run_idx' = 0
    /\ pc' = "raised"
    /\ UNCHANGED <<now, schedule_times, schedule_days, last_execution_minute, log,
                   setup_at, ro_pc, ro_count, setups, task_executing, late,
                   snap, mail, app, exporter>>

\* variant: the finally clause also forgets the minute of the failed run
TaskRaiseForgetsMinute ==
    /\ pc = "task"
    /\ task_executing' = FALSE
    /\ last_execution_minute' = None
    /\ active' = active - 1
    /\ task_ticks' = 0
    /\ outcome' = "raised"
    /\ Stopped
    /\ stopped_by' = "task_error"
    /\ run_list' = <<>>
    /\ run_idx' = 0
    /\ pc' = "raised"
    /\ UNCHANGED <<now, schedule_times, schedule_days, log,
                   setup_at, ro_pc, ro_count, setups, late,
                   snap, mail, app, exporter>>

\* the Task Body raises: the wrapper's finally clause runs and the exception
\* leaves the wrapper, Job.run(), run_pending() and the loop; run() logs it,
\* calls stop() and re-raises.
TaskRaise ==
    /\ pc = "task"
    /\ task_executing' = FALSE
    /\ active' = active - 1
    /\ task_ticks' = 0
    /\ outcome' = "raised"
    /\ Stopped
    /\ stopped_by' = "task_error"
    /\ run_list' = <<>>
    /\ run_idx' = 0
    /\ pc' = "raised"
    /\ UNCHANGED <<now, schedule_times, schedule_days, last_execution_minute, log,
                   setup_at, ro_pc, ro_count, setups, late,
                   snap, mail, app, exporter>>

\* every collected job has been run: time.sleep(60), which may overshoot.
Sleep(d) ==
    /\ pc = "pending"
    /\ run_idx = Len(run_list)
    /\ now + TicksPerMinute + d <= Horizon
    /\ now' = now + TicksPerMinute + d
    /\ run_list' = <<>>
    /\ run_idx' = 0
    /\ pc' = "poll"
    /\ UNCHANGED <<schedule_times, schedule_days, is_running, task_executing,
                   last_execution_minute, jobs, job, log, outcome, setup_at,
                   active, task_ticks, ro_pc, ro_count, setups, stopped_by, late,
                   snap, mail, app, exporter>>

(* ------------------------------- stop() ------------------------------- *)
\* variant: stop() without its schedule.clear()
StopFlagOnly ==
    /\ is_running' = FALSE
    /\ stopped_by' = "caller"
    /\ UNCHANGED <<now, schedule_times, schedule_days, task_executing,
                   last_execution_minute, jobs, job, pc, run_list, run_idx, log,
                   outcome, setup_at, active, task_ticks, ro_pc, ro_count, setups,
                   late,
                   snap, mail, app, exporter>>

\* stop() called from outside the loop, at any moment: is_running = False and
\* schedule.clear().  The Job objects a pass has collected stay alive.
Stop ==
    /\ is_running' = FALSE
    /\ jobs' = <<>>
    /\ stopped_by' = "caller"
    /\ UNCHANGED <<now, schedule_times, schedule_days, task_executing,
                   last_execution_minute, job, pc, run_list, run_idx, log, outcome,
                   setup_at, active, task_ticks, ro_pc, ro_count, setups, late,
                   snap, mail, app, exporter>>

\* a KeyboardInterrupt reaches run() after setup: a Task Body in flight is
\* left through the wrapper's finally clause; run() logs, calls stop() and
\* returns.
KeyboardInterrupt ==
    /\ pc \in {"sweep", "poll", "pending", "task"}
    /\ task_executing' = FALSE
    /\ active' = 0
    /\ task_ticks' = 0
    /\ outcome' = IF pc = "task" THEN "interrupted" ELSE outcome
    /\ Stopped
    /\ stopped_by' = "interrupt"
    /\ run_list' = <<>>
    /\ run_idx' = 0
    /\ pc' = "returned"
    /\ UNCHANGED <<now, schedule_times, schedule_days, last_execution_minute, log,
                   setup_at, ro_pc, ro_count, setups, late,
                   snap, mail, app, exporter>>

(* ----------------------------- run_once() ----------------------------- *)
\* run_once() called from another thread: self.task_function() is called.
RunOnceStart ==
    /\ ro_pc = "idle"
    /\ ro_count < MaxRunOnce
    /\ ro_pc' = "task"
    /\ ro_count' = ro_count + 1
    /\ UNCHANGED <<now, schedule_times, schedule_days, is_running, task_executing,
                   last_execution_minute, jobs, job, pc, run_list, run_idx, log,
                   outcome, setup_at, active, task_ticks, setups, stopped_by, late,
                   snap, mail, app, exporter>>

\* its Task Body returns or raises (run_once logs and re-raises).
RunOnceEnd ==
    /\ ro_pc = "task"
    /\ ro_pc' = "idle"
    /\ UNCHANGED <<now, schedule_times, schedule_days, is_running, task_executing,
                   last_execution_minute, jobs, job, pc, run_list, run_idx, log,
                   outcome, setup_at, active, task_ticks, ro_count, setups, stopped_by, late,
                   snap, mail, app, exporter>>

Next ==
    \/ RunStart
    \/ \E d \in 0 .. MaxJitter : CleanupPastJobs(d)
    \/ Poll
    \/ Fire
    \/ TaskTick
    \/ TaskReturn
    \/ TaskRaise
    \/ \E d \in 0 .. MaxJitter : Sleep(d)
    \/ RunOnceStart
    \/ RunOnceEnd

Spec == Init /\ [][Next]_vars

(* --------------------- the setup, over all settings ------------------- *)
\* the scheduler as constructed from any of the settings, at any time of a week
InitSetup ==
    /\ now \in 0 .. (TicksPerWeek - 1)
    /\ \E times \in SeqsUpTo(TimesOfDay \cup {BadTime}, MaxTimes), rawdays \in RawDayConfigs :
           Constructed(times, rawdays)
    /\ NothingElse

NextSetup ==
    \/ SetupSchedule
    \/ RunStart
    \/ \E d \in 0 .. MaxJitter : CleanupPastJobs(d)

SpecSetup == InitSetup /\ [][NextSetup]_vars

(* ------------------- the scheduler's life: stop, restart -------------- *)
\* SCHEDULE_TIME values: as many times of day as may be configured, and a
\* malformed time after a well-formed one
LifeTimes == {[i \in 1 .. MaxTimes |-> (i - 1) % MinutesPerDay], <<0, BadTime>>}

\* the scheduler as constructed on the last day of a week
InitLife ==
    /\ now \in (TicksPerWeek - TicksPerDay) .. (TicksPerWeek - 1)
    /\ \E times \in LifeTimes, rawdays \in RawDayConfigsLoop :
           Constructed(times, rawdays)
    /\ NothingElse

NextLife ==
    \/ SetupSchedule
    \/ RunStart
    \/ RunAgain
    \/ \E d \in 0 .. MaxJitter : CleanupPastJobs(d)
    \/ Poll
    \/ Fire
    \/ TaskTick
    \/ TaskReturn
    \/ TaskRaise
    \/ \E d \in 0 .. MaxJitter : Sleep(d)
    \/ Stop
    \/ KeyboardInterrupt

SpecLife == InitLife /\ [][NextLife]_vars

\* the loop thread keeps running: the sweep, the loop condition, the calls of
\* the due jobs and time.sleep() each complete, and a Task Body that was
\* called comes to an end.
LoopFairness ==
    /\ WF_vars(\E d \in 0 .. MaxJitter : CleanupPastJobs(d))
    /\ WF_vars(Poll)
    /\ WF_vars(Fire)
    /\ WF_vars(TaskReturn \/ TaskRaise)
    /\ WF_vars(\E d \in 0 .. MaxJitter : Sleep(d))

SpecLifeFair == SpecLife /\ LoopFairness

(* ------------------ the wrapper, over all guard states ---------------- *)
\* one daily job, due; the guard's fields and the clock are the wrapper's inputs
InitGuard ==
    /\ now \in 0 .. (TicksPerWeek - 1)
    /\ task_executing \in BOOLEAN
    /\ last_execution_minute \in {None} \cup (0 .. MinuteOf(TicksPerWeek - 1))
    /\ schedule_times = <<0>>
    /\ schedule_days = <<"EVERYDAY">>
    /\ is_running = TRUE
    /\ jobs = <<DailyId(1)>>
    /\ job = [DayMapJobs EXCEPT ![DailyId(1)] =
                [unit |-> "days", start_day |-> None, at_time |-> 0, next_run |-> 0]]
    /\ pc = "pending"
    /\ run_list = PassOf(Runnable(jobs, job, now), job)
    /\ run_idx = 0
    /\ log = "none"
    /\ outcome = "none"
    /\ setup_at = 0
    /\ active = IF task_executing THEN 1 ELSE 0
    /\ task_ticks = 0
    /\ ro_pc = "idle"
    /\ ro_count = 0
    /\ setups = 1
    /\ stopped_by = "none"
    /\ late = NoneLate
    /\ NothingElse

NextGuard == Fire

SpecGuard == InitGuard /\ [][NextGuard]_vars

(* ------------------------------- claims ------------------------------- *)
PassDone == pc = "pending" /\ run_idx = Len(run_list)

Invocations(minute) ==
    {k \in DOMAIN run_list : run_list[k].trig = minute /\ run_list[k].res = "PROCEED"}

\* C1: when two of the jobs collected by one pass of run_pending have
\* next-fire instants in the same minute, the pass invokes the Task Body
\* exactly once for that minute, however long the Task Body runs.
C1_OneInvocationPerTriggerMinute ==
    PassDone =>
        \A a, b \in DOMAIN run_list :
            (a # b /\ run_list[a].trig = run_list[b].trig)
                => Cardinality(Invocations(run_list[a].trig)) = 1

\* C2: a Task Body that raises is contained by the loop: run() has not
\* raised, the scheduler is still running and its job list is intact.
C2_TaskFailureContained ==
    outcome = "raised" => (pc # "raised" /\ is_running /\ jobs # <<>>)

\* C3: at most one Task Body invocation started by the scheduler is active,
\* and one is active only while the loop waits for it, whatever has become
\* due in the meantime.
C3_SingleFlight ==
    /\ active <= 1
    /\ (active = 1) <=> (pc = "task")

\* a Task Body is executing and a job that was not due at the poll is due now
C3_Witness ==
    /\ pc = "task"
    /\ active = 1
    /\ \E k \in DOMAIN jobs :
          /\ should_run(job[jobs[k]], now)
          /\ \A m \in DOMAIN run_list : run_list[m].id # jobs[k]

\* C4: task_executing is false whenever control is not inside the wrapper's
\* call of the Task Body, also after the Task Body raised.
C4_GuardReleased ==
    pc # "task" => task_executing = FALSE

\* the Task Body has raised and the guard is released
C4_Witness ==
    outcome = "raised" /\ pc = "raised" /\ task_executing = FALSE

\* C5: a Task Body started by run_once and one started by the loop never
\* execute at the same time.
C5_RunOnceSingleFlight ==
    ~(pc = "task" /\ ro_pc = "task")

\* the decision the specification's table gives: overlap before duplicate
TableOverlapFirst(in_flight, last_minute, current_minute, decision) ==
    /\ in_flight => decision = "SKIP_OVERLAP"
    /\ (~in_flight /\ last_minute = current_minute) => decision = "SKIP_DUPLICATE"
    /\ (~in_flight /\ last_minute # current_minute) => decision = "PROCEED"

\* the decision with the duplicate check before the overlap check
TableDuplicateFirst(in_flight, last_minute, current_minute, decision) ==
    /\ last_minute = current_minute => decision = "SKIP_DUPLICATE"
    /\ (last_minute # current_minute /\ in_flight) => decision = "SKIP_OVERLAP"
    /\ (last_minute # current_minute /\ ~in_flight) => decision = "PROCEED"

WrapperCalled == pc = "pending" /\ run_idx' = run_idx + 1

JobKey(k) == <<job[jobs[k]].start_day, job[jobs[k]].at_time>>

\* C7: after setup no two jobs of the list have the same
\* (weekday-or-daily, time-of-day).
C7_NoDuplicateJobs ==
    pc = "sweep" => \A a, b \in DOMAIN jobs : a # b => JobKey(a) # JobKey(b)

CoversEveryDay ==
    valid_days \subseteq Range(schedule_days) \/ "EVERYDAY" \in Range(schedule_days)

Matches(j, t) ==
    /\ TickOfDay(t) = j.at_time * TicksPerMinute
    /\ j.unit = "weeks" => Weekday(t) = j.start_day

\* today's instant at job j's time of day
TodayAt(j, t) == (t \div TicksPerDay) * TicksPerDay + j.at_time * TicksPerMinute

\* C9: after setup at clock setup_at every job's next-fire instant is the
\* nearest instant after setup_at at the job's time of day (on its weekday);
\* when today's occurrence is at or before setup_at it is one interval later.
C9_NextFire ==
    pc = "sweep" =>
        \A k \in DOMAIN jobs :
            LET j == job[jobs[k]]
            IN  /\ j.next_run > setup_at
                /\ Matches(j, j.next_run)
                /\ \A t \in (setup_at + 1) .. (j.next_run - 1) : ~Matches(j, t)
                /\ (Matches(j, TodayAt(j, setup_at)) /\ TodayAt(j, setup_at) <= setup_at)
                       => j.next_run = TodayAt(j, setup_at) + Period(j)

\* a Monday job set up on a Monday after its time: next Monday
C9_Witness ==
    /\ pc = "sweep"
    /\ Weekday(setup_at) = 0
    /\ \E k \in DOMAIN jobs :
          /\ job[jobs[k]].unit = "weeks"
          /\ job[jobs[k]].start_day = 0
          /\ TodayAt(job[jobs[k]], setup_at) < setup_at
          /\ job[jobs[k]].next_run = TodayAt(job[jobs[k]], setup_at) + TicksPerWeek

\* C10: the sweep leaves exactly the jobs whose next-fire instant is
\* strictly after the clock it read, in their order.
C10_PastJobSweep ==
    [][(pc = "sweep" /\ pc' = "poll") =>
         jobs' = SelectSeq(jobs, LAMBDA id : job[id].next_run > now')]_vars

\* after the sweep a registered job that was due is off the list and a
\* future one is on it
C10_Witness ==
    /\ pc = "poll"
    /\ run_list = <<>>
    /\ \E id \in JobIds :
          /\ job[id].next_run # None
          /\ job[id].next_run <= now
          /\ id \notin Range(jobs)
    /\ \E k \in DOMAIN jobs : job[jobs[k]].next_run > now

\* the next-fire instants of the entries of a job list, in ascending order
FireInstants(js, heap) ==
    [k \in DOMAIN js |-> heap[SortByNextRun(js, heap)[k]].next_run]

\* a call of setup_schedule that did not raise
SetupCalled == setups' = setups + 1 /\ pc' # "raised"

\* C11: a setup that follows earlier setups (by the caller, or by a run()
\* that has ended) leaves a job list of the size and with the fire instants
\* of a single setup on an empty registry at the same clock; after a setup
\* at the same clock whose jobs are still registered, the size and the fire
\* instants are unchanged.
C11_IdempotentSetup ==
    [][SetupCalled =>
         /\ \E order \in DayOrders(schedule_days) :
                LET once == SetupResult(<<>>, schedule_times, schedule_days, order, now)
                IN  /\ Len(jobs') = Len(once.jobs)
                    /\ FireInstants(jobs', job') = FireInstants(once.jobs, once.job)
         /\ (setups >= 1 /\ pc = "stopped" /\ setup_at = now /\ stopped_by = "none")
                => /\ Len(jobs') = Len(jobs)
                   /\ FireInstants(jobs', job') = FireInstants(jobs, job)]_vars

\* run() has set up a schedule that its caller had set up at the same clock
C11_Witness ==
    /\ setups = 2
    /\ pc = "sweep"
    /\ setup_at = now
    /\ outcome = "none"
    /\ Len(jobs) >= 2

\* C12: when a configured time of day is malformed, run() has raised during
\* setup once it was called: the scheduler is stopped with an empty job
\* list and the Task Body was never invoked.
C12_MalformedTimeRaises ==
    (BadTime \in Range(schedule_times) /\ pc # "stopped") =>
        /\ pc = "raised"
        /\ is_running = FALSE
        /\ jobs = <<>>
        /\ active = 0
        /\ outcome = "none"

\* the entries of the pass for jobs that became due while a Task Body fired
\* for another job was executing, before this pass's poll
Delayed == {k \in DOMAIN run_list : run_list[k].id \in late.polled}

\* C13: a job that became due while the Task Body fired for another job was
\* executing is collected by the first poll after that Task Body returned,
\* and that pass invokes the Task Body exactly once for its trigger.
C13_DelayedNotDuplicated ==
    /\ pc \in {"pending", "task"} => late.polled \subseteq {run_list[k].id : k \in DOMAIN run_list}
    /\ PassDone => \A k \in Delayed : Cardinality(Invocations(run_list[k].trig)) = 1

Skips == {"SKIP_DUPLICATE", "SKIP_OVERLAP"}

\* the job of the entry the wrapper is called for
Fired == run_list[run_idx + 1].id

\* C14: when the wrapper skips a firing, the job list and the pass are left
\* as they are (nothing is queued for a later run), no Task Body is started,
\* and the skipped job's next-fire instant moves to its nearest occurrence
\* after the clock; within the pass no later entry of the skipped job has
\* the Task Body invoked, and the skipped job is no longer due.
C14_SkippedFiringDropped ==
    /\ [][(WrapperCalled /\ log' \in Skips) =>
             /\ jobs' = jobs
             /\ Len(run_list') = Len(run_list)
             /\ active' = active /\ pc' = pc
             /\ job'[Fired].next_run > now
             /\ Matches(job'[Fired], job'[Fired].next_run)
             /\ \A t \in (now + 1) .. (job'[Fired].next_run - 1) : ~Matches(job'[Fired], t)]_vars
    /\ [](pc = "pending" =>
             \A k \in 1 .. run_idx :
                 run_list[k].res \in Skips =>
                     /\ ~should_run(job[run_list[k].id], now)
                     /\ \A m \in (k + 1) .. run_idx :
                            run_list[m].id = run_list[k].id => run_list[m].res # "PROCEED")

\* a pass has skipped the firing of a job as a duplicate and the job's
\* next-fire instant is in a later week or day
C14_Witness ==
    /\ pc = "pending"
    /\ run_idx = 2
    /\ run_list[2].res = "SKIP_DUPLICATE"
    /\ job[run_list[2].id].next_run > now

InLoop == pc \in {"sweep", "poll", "pending", "task"}

\* stop() was called while run() was running and run() has not ended yet
StopRequested == InLoop /\ is_running = FALSE

\* stop() is called by the owner of the scheduler while run() is running
StopRequest == InLoop /\ is_running /\ is_running' = FALSE /\ stopped_by' = "caller"

\* C15: a stop() requested while run() is running does not touch a Task Body
\* in flight or the pass under way; a Task Body in flight at or after the
\* request ends by itself; the loop condition that follows the request ends
\* run() without another poll; and run() does end.
C15_StopTerminates ==
    /\ [][StopRequest =>
             /\ pc' = pc /\ active' = active
             /\ task_executing' = task_executing /\ task_ticks' = task_ticks
             /\ run_list' = run_list /\ run_idx' = run_idx]_vars
    /\ [][(StopRequested /\ pc = "task" /\ pc' # "task") =>
             outcome' \in {"returned", "raised", "interrupted"}]_vars
    /\ [][(StopRequested /\ pc = "poll") => pc' \in {"poll", "returned"}]_vars
    /\ ((StopRequested /\ now <= TicksPerWeek) ~> (pc \in {"returned", "raised"}))

\* run() has returned on a stop() of its owner, after a Task Body returned
C15_Witness ==
    /\ pc = "returned"
    /\ stopped_by = "caller"
    /\ outcome = "returned"
    /\ setups = 1

\* C16: once stop() has returned, whoever called it (the owner of the
\* scheduler while run() was running or not, or run() on a setup error, a
\* Task Body's exception or a keyboard interrupt), is_running is false and
\* the job list is empty, until a setup registers jobs again.
C16_StopLeavesStopped ==
    stopped_by # "none" => (is_running = FALSE /\ jobs = <<>>)

\* stop() was called by the owner during a pass with a Task Body in flight
C16_Witness ==
    /\ pc = "task"
    /\ stopped_by = "caller"
    /\ is_running = FALSE
    /\ jobs = <<>>
    /\ active = 1

Weekdays == {"MON", "TUE", "WED", "THU", "FRI", "SAT", "SUN"}

\* the configured symbols that name a weekday
ConfiguredWeekdays == Range(schedule_days) \cap Weekdays

\* a configured symbol is neither a weekday nor the every-day sentinel
UnknownDay == \E d \in Range(schedule_days) : d \notin Weekdays \cup {"EVERYDAY"}

\* the entries of the job list for weekday symbol d
EntriesOf(d) ==
    {k \in DOMAIN jobs : job[jobs[k]].unit = "weeks" /\ job[jobs[k]].start_day = day_map(d)}

\* C17: with an unknown day symbol configured (and well-formed times) run()
\* does not raise, every job of the set-up list is a weekly job of a
\* configured weekday, and every configured weekday has one entry per
\* distinct configured time; with no weekday and no sentinel configured
\* run() is running with an empty job list, which the start-up reports as a
\* warning.
C17_UnknownDaysIgnored ==
    /\ (UnknownDay /\ ~CoversEveryDay /\ BadTime \notin Range(schedule_times) /\ pc # "stopped")
          => /\ pc \in {"sweep", "poll"}
             /\ is_running
             /\ pc = "sweep" =>
                   /\ DOMAIN jobs = UNION {EntriesOf(d) : d \in ConfiguredWeekdays}
                   /\ \A d \in ConfiguredWeekdays :
                          Cardinality(EntriesOf(d)) = Cardinality(Range(schedule_times))
    /\ (ConfiguredWeekdays = {} /\ ~CoversEveryDay /\ pc # "stopped")
          => /\ pc \in {"sweep", "poll"}
             /\ is_running
             /\ jobs = <<>>
             /\ pc = "poll" => log = "NO_JOBS"

\* MON beside an unknown symbol: run() has set up Monday's jobs
C17_Witness ==
    /\ pc = "sweep"
    /\ UnknownDay
    /\ ConfiguredWeekdays = {"MON"}
    /\ Len(schedule_times) = 2
    /\ Len(jobs) = 2

(* -------------------------- execute_snapshot() ------------------------ *)
MaxRows == 2

\* what the invocation meets: whether the query file loads, the rows the
\* query returns (None when execute_query caught an error), whether
\* export_to_csv returns a path, whether cleanup_old_files met an error (it
\* catches it), EMAIL_ENABLED, and how send_snapshot_report and
\* send_error_notification end.
SnapInputs ==
    [query_file : BOOLEAN, df : {None} \cup (0 .. MaxRows), csv_file : BOOLEAN,
     cleanup : {"ok", "failed"}, email_enabled : BOOLEAN,
     report : {"sent", "failed", "raised"}, error_mail : {"sent", "failed", "raised"}]

\* execute_snapshot is called
SnapStart(in) == [pc |-> "load", in |-> in, steps |-> <<>>, failed |-> {}, result |-> "none"]

InitSnapshot ==
    /\ now = 0
    /\ Constructed(<<0>>, <<"MON">>)
    /\ \E in \in SnapInputs : snap = SnapStart(in)
    /\ mail = MailIdle
    /\ app = AppIdle
    /\ exporter = ExporterIdle

\* the step `to` follows, and `did` (if any) is added to the steps taken
SnapGoes(to, did) ==
    snap' = [snap EXCEPT !.pc = to,
                         !.steps = IF did = "" THEN @ ELSE Append(@, did)]

\* the same, when the step `did` failed
SnapFails(to, did) ==
    snap' = [snap EXCEPT !.pc = to, !.steps = Append(@, did), !.failed = @ \cup {did}]

\* send_error_notification is called when EMAIL_ENABLED: the steps and the
\* failures after it
Notified(steps) == IF snap.in.email_enabled THEN Append(steps, "error_notification") ELSE steps

NotifyFailed(failed) ==
    IF snap.in.email_enabled /\ snap.in.error_mail # "sent"
    THEN failed \cup {"error_notification"} ELSE failed

\* the query file is resolved and loaded; a missing file raises
LoadQuery ==
    /\ snap.pc = "load"
    /\ IF snap.in.query_file THEN SnapGoes("query", "") ELSE SnapFails("except", "load")
    /\ UNCHANGED <<sched_vars, mail, app, exporter>>

\* Step 1: with db_manager: df = db_manager.execute_query(query), which
\* returns None when the connection or the query failed
ExecuteQuery ==
    /\ snap.pc = "query"
    /\ IF snap.in.df = None THEN SnapFails("check", "query") ELSE SnapGoes("check", "query")
    /\ UNCHANGED <<sched_vars, mail, app, exporter>>

\* variant: an empty result is exported like any other
CheckResultNoReturn ==
    /\ snap.pc = "check"
    /\ SnapGoes("export", "")
    /\ UNCHANGED <<sched_vars, mail, app, exporter>>

\* if df is None or df.empty: the error notification (if EMAIL_ENABLED) and
\* return False; an exception of the notification goes to the handler
CheckResult ==
    /\ snap.pc = "check"
    /\ IF snap.in.df = None \/ snap.in.df = 0
       THEN snap' = [snap EXCEPT
                        !.pc = IF snap.in.email_enabled /\ snap.in.error_mail = "raised"
                               THEN "except" ELSE "done",
                        !.result = IF snap.in.email_enabled /\ snap.in.error_mail = "raised"
                                   THEN @ ELSE "False",
                        !.steps = Notified(@),
                        !.failed = NotifyFailed(@)]
       ELSE SnapGoes("export", "")
    /\ UNCHANGED <<sched_vars, mail, app, exporter>>

\* Step 2: csv_file = exporter.export_to_csv(df); None raises
ExportToCsv ==
    /\ snap.pc = "export"
    /\ IF snap.in.csv_file THEN SnapGoes("cleanup", "export") ELSE SnapFails("except", "export")
    /\ UNCHANGED <<sched_vars, mail, app, exporter>>

\* Step 3: exporter.cleanup_old_files(), which catches its own errors
CleanupOldFiles ==
    /\ snap.pc = "cleanup"
    /\ IF snap.in.cleanup = "ok" THEN SnapGoes("notify", "cleanup") ELSE SnapFails("notify", "cleanup")
    /\ UNCHANGED <<sched_vars, mail, app, exporter>>

\* Step 4: send_snapshot_report if EMAIL_ENABLED, then the summary and
\* return True (an unsent report is a warning); an exception of the report
\* goes to the handler
SendReport ==
    /\ snap.pc = "notify"
    /\ IF ~snap.in.email_enabled
       THEN snap' = [snap EXCEPT !.pc = "done", !.result = "True"]
       ELSE IF snap.in.report = "raised"
       THEN SnapFails("except", "report")
       ELSE snap' = [snap EXCEPT !.pc = "done", !.result = "True",
                                 !.steps = Append(@, "report"),
                                 !.failed = IF snap.in.report = "failed"
                                            THEN @ \cup {"report"} ELSE @]
    /\ UNCHANGED <<sched_vars, mail, app, exporter>>

\* variant: the handler without the try around its error notification
HandleErrorNoInnerTry ==
    /\ snap.pc = "except"
    /\ snap' = [snap EXCEPT !.pc = "done",
                            !.result = IF snap.in.email_enabled /\ snap.in.error_mail = "raised"
                                       THEN "raised" ELSE "False",
                            !.steps = Notified(@),
                            !.failed = NotifyFailed(@)]
    /\ UNCHANGED <<sched_vars, mail, app, exporter>>

\* except Exception: the error notification (if EMAIL_ENABLED, its own
\* exception swallowed) and return False
HandleError ==
    /\ snap.pc = "except"
    /\ snap' = [snap EXCEPT !.pc = "done", !.result = "False",
                            !.steps = Notified(@),
                            !.failed = NotifyFailed(@)]
    /\ UNCHANGED <<sched_vars, mail, app, exporter>>

NextSnapshot ==
    \/ LoadQuery
    \/ ExecuteQuery
    \/ CheckResult
    \/ ExportToCsv
    \/ CleanupOldFiles
    \/ SendReport
    \/ HandleError

SpecSnapshot == InitSnapshot /\ [][NextSnapshot]_vars

StepOrder == <<"query", "export", "cleanup", "report">>

\* the steps taken so far, without the error notifications
StepsTaken == SelectSeq(snap.steps, LAMBDA x : x \in Range(StepOrder))

Took(x) == x \in Range(snap.steps)

\* C18: the steps of an execute_snapshot invocation are a prefix of query,
\* export, cleanup, report (so each happens at most once and none before
\* its predecessor); export happens only on a query result with rows,
\* cleanup only when export returned a file, and without rows neither
\* export nor cleanup happens.
C18_SnapshotStepOrder ==
    /\ \E n \in 0 .. Len(StepOrder) : StepsTaken = SubSeq(StepOrder, 1, n)
    /\ Took("export") => (snap.in.df # None /\ snap.in.df >= 1)
    /\ Took("cleanup") => snap.in.csv_file
    /\ Took("report") => (Took("cleanup") /\ snap.in.email_enabled)
    /\ (snap.pc = "done" /\ snap.in.query_file /\ (snap.in.df = None \/ snap.in.df = 0))
          => (StepsTaken = <<"query">> /\ snap.result = "False")

\* a complete invocation: all four steps, in order, and True returned
C18_Witness ==
    /\ snap.pc = "done"
    /\ snap.steps = StepOrder
    /\ snap.result = "True"

(* ----------------------------- send_email() --------------------------- *)
MaxRetry == 3

\* the statements of one delivery attempt (the body of the try), in order
Stages == <<"create_message", "connect", "login", "send_message", "quit">>

\* send_email is called with retry_count; attempt is the loop variable,
\* started counts the delivery attempts begun and tried records how each
\* attempt that ended, ended.
MailStart(retry_count, use_tls) ==
    [pc |-> "for", retry_count |-> retry_count, use_tls |-> use_tls, attempt |-> 0,
     stage |-> 0, started |-> 0, tried |-> <<>>, result |-> "none"]

InitMail ==
    /\ now = 0
    /\ Constructed(<<0>>, <<"MON">>)
    /\ snap = SnapIdle
    /\ \E retry_count \in 0 .. MaxRetry, use_tls \in BOOLEAN :
           mail = MailStart(retry_count, use_tls)
    /\ app = AppIdle
    /\ exporter = ExporterIdle

\* `for attempt in range(retry_count)`: the next attempt begins, or the loop
\* is over and send_email returns False
ForAttempt ==
    /\ mail.pc = "for"
    /\ IF mail.attempt < mail.retry_count
       THEN mail' = [mail EXCEPT !.pc = "try", !.stage = 1, !.started = @ + 1]
       ELSE mail' = [mail EXCEPT !.pc = "done", !.result = "False"]
    /\ UNCHANGED <<sched_vars, snap, app, exporter>>

\* the next statement of the attempt succeeds; after server.quit(), return True
TryStage ==
    /\ mail.pc = "try"
    /\ IF mail.stage < Len(Stages)
       THEN mail' = [mail EXCEPT !.stage = @ + 1]
       ELSE mail' = [mail EXCEPT !.pc = "done", !.result = "True",
                                 !.tried = Append(@, [how |-> "sent", at |-> "quit"])]
    /\ UNCHANGED <<sched_vars, snap, app, exporter>>

\* the exceptions a statement of the attempt may raise: login may be refused
Raises(stage) ==
    IF Stages[stage] = "login" THEN {"SMTPAuthenticationError", "Exception"} ELSE {"Exception"}

\* variant: an authentication failure is handled like any other exception
ExceptRetryAll(e) ==
    /\ mail.pc = "try"
    /\ e \in Raises(mail.stage)
    /\ LET ended == Append(mail.tried, [how |-> e, at |-> Stages[mail.stage]])
       IN  IF mail.attempt < mail.retry_count - 1
           THEN mail' = [mail EXCEPT !.pc = "for", !.attempt = @ + 1, !.tried = ended]
           ELSE mail' = [mail EXCEPT !.pc = "done", !.result = "False", !.tried = ended]
    /\ UNCHANGED <<sched_vars, snap, app, exporter>>

\* the current statement of the attempt raises e: an authentication error
\* returns False; any other exception goes to the next attempt, or returns
\* False after the last one
Except(e) ==
    /\ mail.pc = "try"
    /\ e \in Raises(mail.stage)
    /\ LET ended == Append(mail.tried, [how |-> e, at |-> Stages[mail.stage]])
       IN  IF e = "SMTPAuthenticationError"
           THEN mail' = [mail EXCEPT !.pc = "done", !.result = "False", !.tried = ended]
           ELSE IF mail.attempt < mail.retry_count - 1
           THEN mail' = [mail EXCEPT !.pc = "for", !.attempt = @ + 1, !.tried = ended]
           ELSE mail' = [mail EXCEPT !.pc = "done", !.result = "False", !.tried = ended]
    /\ UNCHANGED <<sched_vars, snap, app, exporter>>

NextMail ==
    \/ ForAttempt
    \/ TryStage
    \/ \E e \in {"SMTPAuthenticationError", "Exception"} : Except(e)

SpecMail == InitMail /\ [][NextMail]_vars

\* the attempts that ended with `how`
Ended(how) == {k \in DOMAIN mail.tried : mail.tried[k].how = how}

\* C19: send_email begins at most retry_count delivery attempts; an attempt
\* that succeeds or is refused authentication is the last one and returns
\* True resp. False; an attempt that fails otherwise is followed by another
\* one while fewer than retry_count were made; and False is returned exactly
\* when no attempt succeeded, as when retry_count is 0.
C19_BoundedRetry ==
    /\ mail.started <= mail.retry_count
    /\ Len(mail.tried) <= mail.started
    /\ \A k \in Ended("sent") \cup Ended("SMTPAuthenticationError") :
          k = Len(mail.tried) /\ mail.pc = "done"
    /\ mail.pc = "done" =>
          /\ mail.result = (IF Ended("sent") # {} THEN "True" ELSE "False")
          /\ (Ended("Exception") = DOMAIN mail.tried) => Len(mail.tried) = mail.retry_count
    /\ mail.pc # "done" => mail.result = "none"

\* a failed attempt was retried and the second attempt delivered
C19_Witness ==
    /\ mail.pc = "done"
    /\ mail.retry_count = 3
    /\ Len(mail.tried) = 2
    /\ mail.tried[1].how = "Exception"
    /\ mail.tried[2].how = "sent"
    /\ mail.result = "True"

(* -------------------------------- main() ------------------------------ *)
\* the command line (argparse store_true flags) and the settings main() reads
Args == [run_once : BOOLEAN, test_db : BOOLEAN, test_email : BOOLEAN, schedule : BOOLEAN]

\* the settings validate() looks at: which of them are empty, and EMAIL_ENABLED
DbFields == {"DB_HOST", "DB_NAME", "DB_USER", "DB_PASSWORD"}

EmailFields == {"SMTP_USERNAME", "SMTP_PASSWORD", "EMAIL_FROM"}

Settings == [empty : SUBSET (DbFields \cup EmailFields \cup {"EMAIL_TO"}), EMAIL_ENABLED : BOOLEAN]

\* variant: only the database fields are validated
validateDbOnly(settings) ==
    IF {f \in DbFields : f \in settings.empty} # {} THEN "ValueError" ELSE "True"

\* Settings.validate(): missing database fields raise; with EMAIL_ENABLED,
\* missing email fields raise, then an empty EMAIL_TO raises
validate(settings) ==
    LET missing_fields == {f \in DbFields : f \in settings.empty}
        missing_email_fields == {f \in EmailFields : f \in settings.empty}
    IN  IF missing_fields # {} THEN "ValueError"
        ELSE IF settings.EMAIL_ENABLED /\ missing_email_fields # {} THEN "ValueError"
        ELSE IF settings.EMAIL_ENABLED /\ "EMAIL_TO" \in settings.empty THEN "ValueError"
        ELSE "True"

MainStart(args, settings, schedule_enabled) ==
    [pc |-> "validate", args |-> args, settings |-> settings,
     SCHEDULE_ENABLED |-> schedule_enabled, calls |-> <<>>, exit |-> None]

InitMain ==
    /\ now = 0
    /\ Constructed(<<0>>, <<"MON">>)
    /\ snap = SnapIdle
    /\ mail = MailIdle
    /\ exporter = ExporterIdle
    /\ \E args \in Args, settings \in Settings, schedule_enabled \in BOOLEAN :
           app = MainStart(args, settings, schedule_enabled)

\* main() calls `what` and goes on at `to`
MainGoes(to, what) == [app EXCEPT !.pc = to, !.calls = Append(@, what)]

\* sys.exit(code) after calling `what`
MainExits(code, what) == [app EXCEPT !.pc = "exited", !.calls = Append(@, what), !.exit = code]

\* settings.validate(): a ValueError reaches `except Exception` and exits 1
Validate ==
    /\ app.pc = "validate"
    /\ app' = IF validate(app.settings) = "True"
              THEN MainGoes("test_db", "validate")
              ELSE MainExits(1, "validate")
    /\ UNCHANGED <<sched_vars, snap, mail, exporter>>

\* --test-db: test the connection and exit
TestDb ==
    /\ app.pc = "test_db"
    /\ IF app.args.test_db
       THEN \E ok \in BOOLEAN : app' = MainExits(IF ok THEN 0 ELSE 1, "test_database_connection")
       ELSE app' = [app EXCEPT !.pc = "test_email"]
    /\ UNCHANGED <<sched_vars, snap, mail, exporter>>

\* --test-email: send the test email and exit
TestEmail ==
    /\ app.pc = "test_email"
    /\ IF app.args.test_email
       THEN \E ok \in BOOLEAN : app' = MainExits(IF ok THEN 0 ELSE 1, "test_email_sending")
       ELSE app' = [app EXCEPT !.pc = "startup"]
    /\ UNCHANGED <<sched_vars, snap, mail, exporter>>

\* the connection test made on startup in every other mode
StartupDbTest ==
    /\ app.pc = "startup"
    /\ \E ok \in BOOLEAN :
          app' = IF ok THEN MainGoes("run_once", "test_database_connection")
                       ELSE MainExits(1, "test_database_connection")
    /\ UNCHANGED <<sched_vars, snap, mail, exporter>>

\* --run-once: one snapshot, then exit
RunOnceMode ==
    /\ app.pc = "run_once"
    /\ IF app.args.run_once
       THEN \E success \in BOOLEAN : app' = MainExits(IF success THEN 0 ELSE 1, "execute_snapshot")
       ELSE app' = [app EXCEPT !.pc = "gate"]
    /\ UNCHANGED <<sched_vars, snap, mail, exporter>>

\* variant: the scheduler is started without looking at the gate
GateOpen ==
    /\ app.pc = "gate"
    /\ app' = [app EXCEPT !.pc = "scheduler"]
    /\ UNCHANGED <<sched_vars, snap, mail, exporter>>

\* `if not settings.SCHEDULE_ENABLED and not args.schedule: sys.exit(1)`
Gate ==
    /\ app.pc = "gate"
    /\ app' = IF ~app.SCHEDULE_ENABLED /\ ~app.args.schedule
              THEN [app EXCEPT !.pc = "exited", !.exit = 1]
              ELSE [app EXCEPT !.pc = "scheduler"]
    /\ UNCHANGED <<sched_vars, snap, mail, exporter>>

\* create_scheduler(execute_snapshot), then scheduler.run()
StartScheduler ==
    /\ app.pc = "scheduler"
    /\ app' = [app EXCEPT !.pc = "run", !.calls = @ \o <<"create_scheduler", "run">>]
    /\ UNCHANGED <<sched_vars, snap, mail, exporter>>

\* run() comes back to main(): by returning, with a KeyboardInterrupt
\* (exit 0) or with another exception (exit 1)
SchedulerEnds ==
    /\ app.pc = "run"
    /\ \E how \in {"returned", "KeyboardInterrupt", "Exception"} :
          app' = [app EXCEPT !.pc = "exited",
                             !.exit = CASE how = "returned" -> None
                                        [] how = "KeyboardInterrupt" -> 0
                                        [] OTHER -> 1]
    /\ UNCHANGED <<sched_vars, snap, mail, exporter>>

NextMain ==
    \/ Validate
    \/ TestDb
    \/ TestEmail
    \/ StartupDbTest
    \/ RunOnceMode
    \/ Gate
    \/ StartScheduler
    \/ SchedulerEnds

SpecMain == InitMain /\ [][NextMain]_vars

RunInvoked == "run" \in Range(app.calls)

\* C20: main() never invokes the scheduler's run() while schedule_enabled
\* is false, whatever command-line flags are given.
C20_NeverRunsWhileDisabled == RunInvoked => app.SCHEDULE_ENABLED

\* C20 (amended): main() invokes the scheduler's run() only after the gate,
\* which lets it through when schedule_enabled is true or --schedule was
\* given, and only when none of --test-db, --test-email and --run-once was;
\* with the gate closed run() is not invoked and, unless one of those modes
\* was asked for, main() exits with status 1.
C20_RunsOnlyThroughGate ==
    /\ RunInvoked =>
          /\ app.SCHEDULE_ENABLED \/ app.args.schedule
          /\ ~app.args.test_db /\ ~app.args.test_email /\ ~app.args.run_once
          /\ validate(app.settings) = "True"
    /\ (app.pc \in {"scheduler", "run"}) => (app.SCHEDULE_ENABLED \/ app.args.schedule)
    /\ (app.pc = "exited" /\ ~app.SCHEDULE_ENABLED /\ ~app.args.schedule) =>
          /\ ~RunInvoked
          /\ (~app.args.test_db /\ ~app.args.test_email /\ ~app.args.run_once) => app.exit = 1

\* --schedule was given with schedule_enabled false, and run() was invoked
C20_Witness ==
    /\ RunInvoked
    /\ ~app.SCHEDULE_ENABLED
    /\ app.args.schedule

\* a required field is empty: a database field, or an email field while
\* email is enabled
RequiredFieldEmpty ==
    \/ "DB_HOST" \in app.settings.empty
    \/ "DB_NAME" \in app.settings.empty
    \/ "DB_USER" \in app.settings.empty
    \/ "DB_PASSWORD" \in app.settings.empty
    \/ /\ app.settings.EMAIL_ENABLED
       /\ \/ "SMTP_USERNAME" \in app.settings.empty
          \/ "SMTP_PASSWORD" \in app.settings.empty
          \/ "EMAIL_FROM" \in app.settings.empty
          \/ "EMAIL_TO" \in app.settings.empty

\* C21: when a required field is empty, main() gets no further than
\* settings.validate(): it exits with status 1 and calls neither the
\* connection test, the Task Body, create_scheduler nor run().
C21_InvalidSettingsExit ==
    RequiredFieldEmpty =>
        /\ app.pc \in {"validate", "exited"}
        /\ app.pc = "exited" => app.exit = 1 /\ app.calls = <<"validate">>
        /\ ~RunInvoked
        /\ "execute_snapshot" \notin Range(app.calls)

\* main() was started for the scheduler with only EMAIL_TO empty while
\* email is enabled, and has exited at validation
C21_Witness ==
    /\ app.pc = "exited"
    /\ app.settings = [empty |-> {"EMAIL_TO"}, EMAIL_ENABLED |-> TRUE]
    /\ app.SCHEDULE_ENABLED
    /\ ~app.args.run_once /\ ~app.args.test_db /\ ~app.args.test_email
    /\ app.exit = 1

(* ------------------------- cleanup_old_files() ------------------------ *)
MaxFiles == 2

MaxAge == 2

MaxRetention == 2

\* a file of the output directory: its name against the exporter's
\* file_prefix ("prefix_csv" is <file_prefix>...csv, "prefix_other" begins
\* with file_prefix but does not end in .csv, "other_csv" does not begin
\* with it), and the days since its modification time
FileKinds == {"prefix_csv", "prefix_other", "other_csv"}

Files == [kind : FileKinds, age : 0 .. MaxAge]

Directories == [1 .. MaxFiles -> Files]

ExporterStart(dir, retention_days) ==
    [pc |-> "call", dir |-> dir, retention_days |-> retention_days,
     present |-> DOMAIN dir, todo |-> {}, deleted_count |-> 0, failed |-> {},
     result |-> None]

InitCleanup ==
    /\ now = 0
    /\ Constructed(<<0>>, <<"MON">>)
    /\ snap = SnapIdle
    /\ mail = MailIdle
    /\ app = AppIdle
    /\ \E dir \in Directories, retention_days \in -1 .. MaxRetention :
           exporter = ExporterStart(dir, retention_days)

\* output_dir.glob(f"{file_prefix}*.csv")
glob(dir, present) == {f \in present : dir[f].kind = "prefix_csv"}

\* file_mtime < cutoff_date, with cutoff_date = now - retention_days
OlderThanCutoff(file, retention_days) == file.age > retention_days

\* `if self.retention_days <= 0: return 0`, else the sweep begins over the
\* files the pattern matches
CleanupBegin ==
    /\ exporter.pc = "call"
    /\ IF exporter.retention_days <= 0
       THEN exporter' = [exporter EXCEPT !.pc = "done", !.result = 0]
       ELSE exporter' = [exporter EXCEPT !.pc = "sweep",
                                         !.todo = glob(exporter.dir, exporter.present)]
    /\ UNCHANGED <<sched_vars, snap, mail, app>>

\* variant: a file is counted before it is unlinked
SweepFileCountsFirst ==
    /\ exporter.pc = "sweep"
    /\ \E f \in exporter.todo, raises \in BOOLEAN :
          IF ~OlderThanCutoff(exporter.dir[f], exporter.retention_days)
          THEN exporter' = [exporter EXCEPT !.todo = @ \ {f}]
          ELSE IF raises
          THEN exporter' = [exporter EXCEPT !.todo = @ \ {f}, !.failed = @ \cup {f},
                                            !.deleted_count = @ + 1]
          ELSE exporter' = [exporter EXCEPT !.todo = @ \ {f}, !.present = @ \ {f},
                                            !.deleted_count = @ + 1]
    /\ UNCHANGED <<sched_vars, snap, mail, app>>

\* one iteration of the loop: a file older than the cutoff is unlinked and
\* counted; an exception from unlink() is logged and the loop goes on
SweepFile ==
    /\ exporter.pc = "sweep"
    /\ \E f \in exporter.todo, raises \in BOOLEAN :
          IF ~OlderThanCutoff(exporter.dir[f], exporter.retention_days)
          THEN exporter' = [exporter EXCEPT !.todo = @ \ {f}]
          ELSE IF raises
          THEN exporter' = [exporter EXCEPT !.todo = @ \ {f}, !.failed = @ \cup {f}]
          ELSE exporter' = [exporter EXCEPT !.todo = @ \ {f}, !.present = @ \ {f},
                                            !.deleted_count = @ + 1]
    /\ UNCHANGED <<sched_vars, snap, mail, app>>

\* `return deleted_count` after the loop
CleanupReturn ==
    /\ exporter.pc = "sweep"
    /\ exporter.todo = {}
    /\ exporter' = [exporter EXCEPT !.pc = "done", !.result = exporter.deleted_count]
    /\ UNCHANGED <<sched_vars, snap, mail, app>>

NextCleanup ==
    \/ CleanupBegin
    \/ SweepFile
    \/ CleanupReturn

SpecCleanup == InitCleanup /\ [][NextCleanup]_vars

\* the files the call has deleted
Deleted == DOMAIN exporter.dir \ exporter.present

\* the files modified before now minus retention_days
Expired == {f \in DOMAIN exporter.dir : exporter.dir[f].age > exporter.retention_days}

\* the files whose name begins with the exporter's prefix
MatchesPrefix == {f \in DOMAIN exporter.dir : exporter.dir[f].kind \in {"prefix_csv", "prefix_other"}}

\* the files named <file_prefix>...csv
MatchesPattern == {f \in DOMAIN exporter.dir : exporter.dir[f].kind = "prefix_csv"}

\* C22: when cleanup_old_files returns, the files it deleted are exactly
\* the files matching the exporter's prefix and older than now minus
\* retention_days (less those whose deletion failed), the result is their
\* number, and with retention_days <= 0 nothing is deleted and 0 returned.
C22_DeletesPrefixedExpired ==
    exporter.pc = "done" =>
        /\ exporter.result = Cardinality(Deleted)
        /\ IF exporter.retention_days <= 0
           THEN Deleted = {} /\ exporter.result = 0
           ELSE Deleted = (MatchesPrefix \cap Expired) \ exporter.failed

\* C22 (amended): the same with the files matching <file_prefix>*.csv in
\* place of the files matching the prefix; no file is deleted before the
\* call returns that is not such a file.
C22_DeletesPatternExpired ==
    /\ Deleted \subseteq MatchesPattern \cap Expired
    /\ exporter.pc = "done" =>
          /\ exporter.result = Cardinality(Deleted)
          /\ IF exporter.retention_days <= 0
             THEN Deleted = {} /\ exporter.result = 0
             ELSE Deleted = (MatchesPattern \cap Expired) \ exporter.failed

\* the sweep has returned 1 after deleting one file and failing to delete
\* another
C22_Witness ==
    /\ exporter.pc = "done"
    /\ exporter.result = 1
    /\ exporter.failed # {}
    /\ Cardinality(Deleted) = 1

(* ------------------------ the guard, in the loop ---------------------- *)
\* the wrapper decides PROCEED in this step
Proceeds == WrapperCalled /\ log' = "PROCEED"

\* C23: task_executing is true exactly while a Task Body invocation started
\* by the wrapper is executing; a wrapper that proceeds has set
\* task_executing and last_execution_minute = the minute it read when the
\* Task Body begins; and task_executing is false whenever the loop is
\* sweeping, checking for due jobs, between jobs or sleeping.
C23_InFlightExactly ==
    /\ [](task_executing <=> (pc = "task" /\ active = 1))
    /\ [](pc \in {"stopped", "sweep", "poll", "pending", "returned", "raised"}
            => ~task_executing)
    /\ [][Proceeds => /\ ~task_executing
                      /\ task_executing'
                      /\ last_execution_minute' = MinuteOf(now)
                      /\ pc' = "task"
                      /\ task_ticks' = 0
                      /\ active' = active + 1]_vars

\* the wrapper has proceeded in a later minute than the one it fired in
\* before, and the Task Body it called has not run a tick yet
C23_Witness ==
    /\ pc = "task"
    /\ task_ticks = 0
    /\ task_executing
    /\ last_execution_minute = MinuteOf(now)
    /\ \E k \in DOMAIN run_list : k < run_idx /\ run_list[k].res = "PROCEED"

\* the wrapper is called in the minute recorded in last_execution_minute
CalledInFiredMinute == WrapperCalled /\ last_execution_minute = MinuteOf(now)

\* C24: a wrapper called in the minute recorded in last_execution_minute
\* logs the duplicate skip and does nothing else, whichever job it belongs
\* to: no Task Body is started, task_executing and last_execution_minute
\* keep their values and run() goes on; and last_execution_minute changes
\* only in a step in which a wrapper proceeds.
C24_DuplicateIsNoOp ==
    /\ [][CalledInFiredMinute =>
             /\ log' = "SKIP_DUPLICATE"
             /\ task_executing' = task_executing
             /\ last_execution_minute' = last_execution_minute
             /\ active' = active
             /\ outcome' = outcome
             /\ pc' = "pending"
             /\ is_running' = is_running]_vars
    /\ [][last_execution_minute' # last_execution_minute => Proceeds]_vars

\* in one pass the wrapper of one job proceeded and the wrapper of another
\* job, called in the same minute, was skipped as a duplicate
C24_Witness ==
    /\ pc = "pending"
    /\ run_idx >= 2
    /\ log = "SKIP_DUPLICATE"
    /\ run_list[run_idx].res = "SKIP_DUPLICATE"
    /\ last_execution_minute = MinuteOf(now)
    /\ \E k \in 1 .. (run_idx - 1) :
          /\ run_list[k].res = "PROCEED"
          /\ run_list[k].id # run_list[run_idx].id
    /\ ~task_executing

(* ------------------------------ the poll ------------------------------ *)
\* run_pending collects the due jobs in this step
Polled == pc = "poll" /\ pc' = "pending"

\* the Task Body called for the current entry returns in this step
Returned == pc = "task" /\ pc' = "pending"

\* C25: a poll collects exactly the jobs with next-fire instant <= now and
\* the pass calls the wrapper of each of them; the Task Body is invoked only
\* for a job whose next-fire instant is not in the future; and when the Task
\* Body returns before the job's following occurrence, the job's next-fire
\* instant is one interval later than it was, which is later than the poll.
C25_OnlyDueJobsFire ==
    /\ [][Polled => {run_list'[k].id : k \in DOMAIN run_list'} =
                        {id \in Range(jobs) : job[id].next_run <= now}]_vars
    /\ [](PassDone => \A k \in DOMAIN run_list : run_list[k].res # "due")
    /\ [][Proceeds => job[Fired].next_run <= now]_vars
    /\ [][(Returned /\ now < job[Current.id].next_run + Period(job[Current.id])) =>
             /\ job'[Current.id].next_run = job[Current.id].next_run + Period(job[Current.id])
             /\ job'[Current.id].next_run > now]_vars

(* ---------------- the scheduler with execute_snapshot installed ------- *)
\* create_scheduler(execute_snapshot): one daily job, started on the last day
\* of the week
InitInstalled ==
    /\ now \in (TicksPerWeek - TicksPerDay) .. (TicksPerWeek - 1)
    /\ Constructed(<<0>>, <<"EVERYDAY">>)
    /\ NothingElse

\* the wrapper's `return self.task_function()`: execute_snapshot is entered
CallTaskBody ==
    /\ pc = "task"
    /\ snap.pc \in {"idle", "returned"}
    /\ \E in \in SnapInputs : snap' = SnapStart(in)
    /\ UNCHANGED <<sched_vars, mail, app, exporter>>

\* execute_snapshot is left: by a return, after which the wrapper's finally
\* clause runs and Job.run() reschedules the job, or by an exception, which
\* takes the way of any Task Body exception
TaskBodyEnds ==
    /\ pc = "task"
    /\ snap.pc = "done"
    /\ snap' = [pc |-> "returned", result |-> snap.result, failed |-> snap.failed]
    /\ task_executing' = FALSE
    /\ active' = active - 1
    /\ task_ticks' = 0
    /\ IF snap.result = "raised"
       THEN /\ outcome' = "raised"
            /\ Stopped
            /\ stopped_by' = "task_error"
            /\ run_list' = <<>>
            /\ run_idx' = 0
            /\ pc' = "raised"
            /\ UNCHANGED late
       ELSE /\ outcome' = "returned"
            /\ late' = [late EXCEPT !.waiting = @ \cup BecameDue]
            /\ job' = Rescheduled(job, Current.id, now)
            /\ pc' = "pending"
            /\ UNCHANGED <<is_running, jobs, run_list, run_idx, stopped_by>>
    /\ UNCHANGED <<now, schedule_times, schedule_days, last_execution_minute, log,
                   setup_at, ro_pc, ro_count, setups, mail, app, exporter>>

NextInstalled ==
    \/ RunStart
    \/ \E d \in 0 .. MaxJitter : CleanupPastJobs(d)
    \/ Poll
    \/ Fire
    \/ CallTaskBody
    \/ LoadQuery
    \/ ExecuteQuery
    \/ CheckResult
    \/ ExportToCsv
    \/ CleanupOldFiles
    \/ SendReport
    \/ HandleError
    \/ TaskTick
    \/ TaskBodyEnds
    \/ \E d \in 0 .. MaxJitter : Sleep(d)

SpecInstalled == InitInstalled /\ [][NextInstalled]_vars

\* execute_snapshot has come to its end
SnapEnded == snap.pc \in {"done", "returned"}

\* the loop is polling: run() has neither returned nor raised
KeepsPolling == pc \in {"poll", "pending", "task"} /\ is_running /\ jobs # <<>>

\* C26: execute_snapshot ends by returning True or False, never by an
\* exception; whenever loading the query, the query, the export, the
\* cleanup, the report or the error notification failed it returns False;
\* and the loop that called it keeps polling.
C26_FailureReturnsFalse ==
    /\ [](SnapEnded => snap.result \in {"True", "False"})
    /\ [](SnapEnded => (snap.failed # {} => snap.result = "False"))
    /\ [](outcome # "raised" /\ pc # "raised")
    /\ [](snap.pc = "returned" => KeepsPolling)

\* the invocation meets nothing that makes execute_snapshot return False
Succeeds(in) ==
    /\ in.query_file
    /\ in.df # None /\ in.df >= 1
    /\ in.csv_file
    /\ in.email_enabled => in.report # "raised"

\* C26 (amended): execute_snapshot ends by returning True or False, never
\* by an exception; it returns False exactly when loading the query, the
\* query or the export failed, the query gave no rows, or the report raised,
\* whether or not the error notification could be sent; a failed cleanup or
\* an unsent report leaves the result True; and the loop that called it
\* keeps polling.
C26_NeverRaises ==
    /\ [](SnapEnded => snap.result \in {"True", "False"})
    /\ [](snap.pc = "done" => (snap.result = "True" <=> Succeeds(snap.in)))
    /\ [](SnapEnded => ((snap.failed \ {"cleanup", "report"}) # {} => snap.result = "False"))
    /\ [](outcome # "raised" /\ pc # "raised")
    /\ [](snap.pc = "returned" => KeepsPolling)

\* a run in which also the error notification failed has returned False
\* and the loop has slept and is at its next poll
C26_Witness ==
    /\ snap.pc = "returned"
    /\ snap.result = "False"
    /\ "error_notification" \in snap.failed
    /\ outcome = "returned"
    /\ pc = "poll"
    /\ is_running

(* ------------------------ after a failed Task Body -------------------- *)
\* the Task Body raises in this step
Raised == pc = "task" /\ pc' = "raised"

\* the last Task Body invocation raised and the clock is still in the
\* minute recorded in last_execution_minute
InFailedMinute == outcome = "raised" /\ MinuteOf(now) = last_execution_minute

\* no wrapper proceeds in the recorded minute of a failed run, and
\* last_execution_minute changes after it only when a wrapper proceeds
NoRetryInRecordedMinute ==
    /\ [][(InFailedMinute /\ WrapperCalled) => log' = "SKIP_DUPLICATE"]_vars
    /\ [][(outcome = "raised" /\ last_execution_minute' # last_execution_minute) =>
             (Proceeds /\ MinuteOf(now) # last_execution_minute)]_vars

\* C27: when the Task Body raises in wall-clock minute M,
\* last_execution_minute is M afterwards; no wrapper proceeds in the
\* recorded minute of the failed run.
C27_FailedMinuteIsRaiseMinute ==
    /\ [][Raised => last_execution_minute' = MinuteOf(now)]_vars
    /\ NoRetryInRecordedMinute

\* C27 (amended): when the Task Body raises, last_execution_minute keeps
\* the minute the wrapper read before calling it, through the raise, stop()
\* and a later run(); no wrapper proceeds in that minute.
C27_FailedMinuteKept ==
    /\ [][Raised => /\ last_execution_minute' = last_execution_minute
                    /\ last_execution_minute' = MinuteOf(now - task_ticks)]_vars
    /\ NoRetryInRecordedMinute

\* a Task Body that ran into the next minute has raised, and run() was
\* started again: last_execution_minute is still the minute of the firing
C27_Witness ==
    /\ outcome = "raised"
    /\ setups = 2
    /\ pc = "sweep"
    /\ last_execution_minute = MinuteOf(now) - 1

====
